---- MODULE Spec2Model ----
(***************************************************************************)
(* Model of two plugins of the build tooling:                              *)
(*   - meta/lib/bbconfigbuild/configfragments.py  (ConfigFragmentsPlugin)  *)
(*   - scripts/lib/wic/plugins/source/bootimg-pcbios.py                    *)
(*                                                    (BootimgPcbiosPlugin)*)
(* Text is modelled as a sequence of tokens (a token is a sequence of      *)
(* strings), a path as a sequence of components whose first component is   *)
(* "" when the path is absolute, a file name as its '.'-separated parts.   *)
(***************************************************************************)
EXTENDS Integers, Sequences, FiniteSets, TLC

VARIABLES
    layers,     \* bbfile_collections together with the files below each layer
    localconf,  \* content of $BBPATH/conf/local.conf, a sequence of tokens
    last,       \* the last call: operation, argument, error raised, result
    env,        \* what the image build is given: source_params, bitbake variables,
                \* the directories that hold a syslinux directory
    phase,      \* how far the disk builder has driven the boot partition
    part,       \* the partition descriptor: size and source_file
    fs,         \* the files below cr_workdir, each a pair <<path, content>>
    wcall       \* the last plugin call: handler, inputs, error raised, commands run

fragvars == <<layers, localconf, last>>

wicvars == <<env, phase, part, fs, wcall>>

vars == <<layers, localconf, last, env, phase, part, fs, wcall>>

-----------------------------------------------------------------------------
(* Bounds *)

\* longest initial conf/local.conf, in tokens
MaxConfLen == 3
\* most lines at the head of a fragment file
MaxHeaderLines == 3
\* most files below one layer's conf/fragments
MaxFiles == 2
\* largest content size du reports for hdd/boot, in blocks
MaxBlocks == 2
\* how far get_extra_block_count's answers lie around BOOTDD_EXTRA_SPACE
MaxExtraDelta == 1

-----------------------------------------------------------------------------
(* Generic helpers *)

SeqsUpTo(S, n) == UNION {[1..k -> S] : k \in 0..n}

RECURSIVE Flatten(_)
Flatten(ss) == IF ss = <<>> THEN <<>> ELSE Head(ss) \o Flatten(Tail(ss))

SetMax(S) == CHOOSE x \in S : \A y \in S : y <= x

-----------------------------------------------------------------------------
(* Values of the boot partition plugin's state before any call *)

\* no exception
WicOK == [kind |-> "none", what |-> ""]

\* source_file = None
NoFile == <<>>

\* a key source_params does not hold, a variable bitbake does not set
Absent == "<absent>"

NoWCall == [op |-> "none", err |-> WicOK, log |-> <<>>, in |-> <<>>]

NewPart == [size |-> 0, source_file |-> NoFile]

WicIdle ==
    /\ env = [loader |-> Absent]
    /\ phase = "start"
    /\ part = NewPart
    /\ fs = {}
    /\ wcall = NoWCall

-----------------------------------------------------------------------------
(* Text of conf/local.conf *)

NL == <<"\n">>
TXT == <<"OTHER">>

\* "require conf/fragments/{}.inc".format(fragmentname), without the "\n"
RequireText(fragmentname) == <<"require conf/fragments/">> \o fragmentname \o <<".inc">>

\* appendline = "require conf/fragments/{}.inc\n".format(args.fragmentname)
AppendLine(fragmentname) == <<RequireText(fragmentname), NL>>

\* f.readlines(): the content cut after every "\n"; the last line keeps no "\n"
\* when the content does not end with one
RECURSIVE ReadLinesFrom(_, _)
ReadLinesFrom(content, cur) ==
    IF content = <<>> THEN (IF cur = <<>> THEN <<>> ELSE <<cur>>)
    ELSE IF Head(content) = NL
         THEN <<Append(cur, NL)>> \o ReadLinesFrom(Tail(content), <<>>)
         ELSE ReadLinesFrom(Tail(content), Append(cur, Head(content)))

ReadLines(content) == ReadLinesFrom(content, <<>>)

\* ''.join(lines)
JoinLines(lines) == Flatten(lines)

\* [l for l in lines if l != appendline]
RECURSIVE FilterOut(_, _)
FilterOut(lines, appendline) ==
    IF lines = <<>> THEN <<>>
    ELSE IF Head(lines) # appendline
         THEN <<Head(lines)>> \o FilterOut(Tail(lines), appendline)
         ELSE FilterOut(Tail(lines), appendline)

-----------------------------------------------------------------------------
(* Fragment files *)

LayerDir == <<"", "layers", "meta">>
FragmentsRoot == <<"conf", "fragments">>

\* lines of a fragment file as f.readlines() returns them
LineSummary == <<"#", " ", "Summary", "\n">>
LineDesc == <<"#", " ", "Desc", " ", "\n">>
LineBlank == <<"#", "\n">>
LineVar == <<"VAR", " ", "\n">>
LineChoices == {LineSummary, LineDesc, LineBlank, LineVar}

WhiteSpace == {" ", "\n"}

\* l.startswith('#')
StartsWithHash(l) == l # <<>> /\ Head(l) = "#"

\* str.strip()
RECURSIVE LStrip(_)
LStrip(s) == IF s # <<>> /\ Head(s) \in WhiteSpace THEN LStrip(Tail(s)) ELSE s

RECURSIVE RStrip(_)
RStrip(s) ==
    IF s # <<>> /\ s[Len(s)] \in WhiteSpace THEN RStrip(SubSeq(s, 1, Len(s) - 1)) ELSE s

Strip(s) == RStrip(LStrip(s))

\* the loop of get_fragment_info over f.readlines()
RECURSIVE ScanHeader(_, _, _)
ScanHeader(ls, summary, description) ==
    IF ls = <<>> \/ ~StartsWithHash(Head(ls))
    THEN [summary |-> summary, description |-> description]
    ELSE IF summary = <<>>
         THEN ScanHeader(Tail(ls), Strip(Tail(Head(ls))), description)
         ELSE ScanHeader(Tail(ls), summary, Append(description, Strip(Tail(Head(ls)))))

HeaderError(path) == <<"Please add a one-line summary followed by a description", path>>
NotExistError(name) == <<"Fragment does not exist", name>>
NoError == <<>>

\* get_fragment_info(path): path names a file [dir, file] whose lines are given
get_fragment_info(path, lines) ==
    LET r == ScanHeader(lines, <<>>, <<>>)
    IN  IF r.summary = <<>> \/ r.description = <<>>
        THEN [err |-> HeaderError(path), summary |-> <<>>, description |-> <<>>]
        ELSE [err |-> NoError, summary |-> r.summary, description |-> r.description]

-----------------------------------------------------------------------------
(* Layer trees *)

\* directories below <layerdir>/conf/fragments, relative to it
Dirs == {<<>>, <<"a">>, <<"a", "b">>}

\* file names in sorted() order, each as its '.'-separated parts
FileNames == << <<"f", "inc">>, <<"f", "x", "inc">>, <<"g", "conf">> >>

FileRank(file) == CHOOSE i \in 1..Len(FileNames) : FileNames[i] = file

IsPrefix(p, q) == Len(p) <= Len(q) /\ SubSeq(q, 1, Len(p)) = p

\* os.walk(top) of a tree, top-down: every directory once (its files together,
\* in sorted() order), a directory before the directories below it
WalkOrderOK(w) ==
    /\ \A i, j \in 1..Len(w) :
          i < j /\ w[i].dir = w[j].dir =>
              /\ FileRank(w[i].file) < FileRank(w[j].file)
              /\ \A k \in i..j : w[k].dir = w[i].dir
    /\ \A i, j \in 1..Len(w) :
          (w[i].dir # w[j].dir /\ IsPrefix(w[i].dir, w[j].dir)) => i < j

Headers == SeqsUpTo(LineChoices, MaxHeaderLines)

GoodHeader == <<LineSummary, LineDesc>>

\* the files of the trees: every header at two places, every place with a good header
Files ==
    [dir : {<<"a">>}, file : {<<"f", "inc">>, <<"g", "conf">>}, lines : Headers]
    \cup [dir : Dirs, file : {FileNames[i] : i \in 1..Len(FileNames)}, lines : {GoodHeader}]

LayerTrees == {w \in SeqsUpTo(Files, MaxFiles) : WalkOrderOK(w)}

\* self.bbfile_collections: layername -> layerdir, in insertion order, with the
\* files os.walk finds below each layerdir
Collections(trees) == {<<[name |-> "meta", layerdir |-> LayerDir, walk |-> w]>> : w \in trees}

-----------------------------------------------------------------------------
(* discover_fragments *)

\* topdir.split('conf/fragments/')[-1]: the text after the last
\* 'conf/fragments/', the whole of topdir when it holds none
SplitLast(topdir) ==
    LET occ == {i \in 1..(Len(topdir) - 2) :
                   topdir[i] = "conf" /\ topdir[i + 1] = "fragments"}
    IN  IF occ = {} THEN topdir ELSE SubSeq(topdir, SetMax(occ) + 2, Len(topdir))

\* os.path.join(layerdir, 'conf/fragments') followed by the walked directory
TopDir(layerdir, dir) == layerdir \o FragmentsRoot \o dir

\* "/".join((fragmentdir, fragmentfile.split('.')[0]))
FragmentName(layerdir, f) == Append(SplitLast(TopDir(layerdir, f.dir)), Head(f.file))

\* os.path.join(topdir, fragmentfile)
FragmentPath(layerdir, f) == [dir |-> TopDir(layerdir, f.dir), file |-> f.file]

\* the two inner loops of discover_fragments for one layer
RECURSIVE WalkLayer(_, _, _)
WalkLayer(layerdir, walk, fragments) ==
    IF walk = <<>> THEN [err |-> NoError, fragments |-> fragments]
    ELSE LET f == Head(walk)
             fragmentpath == FragmentPath(layerdir, f)
             info == get_fragment_info(fragmentpath, f.lines)
         IN  IF info.err # NoError
             THEN [err |-> info.err, fragments |-> <<>>]
             ELSE WalkLayer(layerdir, Tail(walk),
                      Append(fragments,
                             [path |-> fragmentpath,
                              name |-> FragmentName(layerdir, f),
                              summary |-> info.summary,
                              description |-> info.description]))

RECURSIVE DiscoverFrom(_, _)
DiscoverFrom(colls, allfragments) ==
    IF colls = <<>> THEN [err |-> NoError, val |-> allfragments]
    ELSE LET layer == Head(colls)
             r == WalkLayer(layer.layerdir, layer.walk, <<>>)
         IN  IF r.err # NoError THEN [err |-> r.err, val |-> <<>>]
             ELSE DiscoverFrom(Tail(colls),
                      IF r.fragments # <<>>
                      THEN Append(allfragments,
                                  [layername |-> layer.name,
                                   layerdir |-> layer.layerdir,
                                   fragments |-> r.fragments])
                      ELSE allfragments)

discover_fragments(colls) == DiscoverFrom(colls, <<>>)

\* the names discover_fragments returned
DiscoveredNames(allfragments) ==
    UNION {{allfragments[i].fragments[j].name : j \in 1..Len(allfragments[i].fragments)} :
              i \in 1..Len(allfragments)}

\* fragment_exists answering True as soon as any fragment is discovered
fragment_exists_any(colls, fragmentname) ==
    LET d == discover_fragments(colls)
    IN  IF d.err # NoError THEN [err |-> d.err, val |-> FALSE]
        ELSE [err |-> NoError, val |-> d.val # <<>>]

fragment_exists(colls, fragmentname) ==
    LET d == discover_fragments(colls)
    IN  IF d.err # NoError THEN [err |-> d.err, val |-> FALSE]
        ELSE [err |-> NoError,
              val |-> \E i \in 1..Len(d.val) : \E j \in 1..Len(d.val[i].fragments) :
                          d.val[i].fragments[j].name = fragmentname]

-----------------------------------------------------------------------------
(* The commands of ConfigFragmentsPlugin *)

NoName == <<>>

Call(op, arg, err, val, read, wrote) ==
    [op |-> op, arg |-> arg, err |-> err, val |-> val, read |-> read, wrote |-> wrote]

NoCall == Call("none", NoName, NoError, <<>>, FALSE, FALSE)

\* do_add_fragment(args) with args.fragmentname = fragmentname
do_add_fragment(fragmentname) ==
    LET exists == fragment_exists(layers, fragmentname)
        appendline == AppendLine(fragmentname)
        lines == ReadLines(localconf)
    IN  IF exists.err # NoError
        THEN /\ last' = Call("add", fragmentname, exists.err, <<>>, FALSE, FALSE)
             /\ UNCHANGED <<layers, localconf, wicvars>>
        ELSE IF ~exists.val
        THEN /\ last' = Call("add", fragmentname, NotExistError(fragmentname), <<>>, FALSE, FALSE)
             /\ UNCHANGED <<layers, localconf, wicvars>>
        ELSE IF \E i \in 1..Len(lines) : lines[i] = appendline
        THEN /\ last' = Call("add", fragmentname, NoError, <<"already included">>, TRUE, FALSE)
             /\ UNCHANGED <<layers, localconf, wicvars>>
        ELSE /\ localconf' = JoinLines(Append(lines, appendline))
             /\ last' = Call("add", fragmentname, NoError, <<>>, TRUE, TRUE)
             /\ UNCHANGED <<layers, wicvars>>

\* do_remove_fragment(args) with args.fragmentname = fragmentname
do_remove_fragment(fragmentname) ==
    LET appendline == AppendLine(fragmentname)
        lines == ReadLines(localconf)
    IN  /\ localconf' = JoinLines(FilterOut(lines, appendline))
        /\ last' = Call("remove", fragmentname, NoError, <<>>, TRUE, TRUE)
        /\ UNCHANGED <<layers, wicvars>>

-----------------------------------------------------------------------------
(* Specification of add-fragment / remove-fragment on conf/local.conf *)

\* the names given on the command line
ArgNames == {<<"a", "f">>, <<"f">>}

ConfTokens == {NL, TXT} \cup {RequireText(n) : n \in ArgNames}

ConfFiles == [dir : {<<>>, <<"a">>}, file : {<<"f", "inc">>}, lines : {GoodHeader, <<LineVar>>}]

ConfTrees == {w \in SeqsUpTo(ConfFiles, MaxFiles) : WalkOrderOK(w)}

InitConf ==
    /\ layers \in Collections(ConfTrees)
    /\ localconf \in SeqsUpTo(ConfTokens, MaxConfLen)
    /\ last = NoCall
    /\ WicIdle

NextConf ==
    \/ \E n \in ArgNames : do_add_fragment(n)
    \/ \E n \in ArgNames : do_remove_fragment(n)

SpecConf == InitConf /\ [][NextConf]_vars

-----------------------------------------------------------------------------
(* C1: add-fragment is idempotent: a second do_add_fragment with the same   *)
(* existing fragment name leaves conf/local.conf exactly as the first run   *)
(* left it, whatever the prior content (a last line without "\n" included). *)
C1_AddIdempotent ==
    [][(/\ last.op = "add" /\ last.err = NoError
        /\ last'.op = "add" /\ last'.err = NoError
        /\ last'.arg = last.arg) => localconf' = localconf]_vars

\* l is the require reference to fragmentname, with or without its "\n"
IsRequireLine(l, fragmentname) ==
    l = AppendLine(fragmentname) \/ l = <<RequireText(fragmentname)>>

RECURSIVE KeepOthers(_, _)
KeepOthers(lines, fragmentname) ==
    IF lines = <<>> THEN <<>>
    ELSE IF IsRequireLine(Head(lines), fragmentname)
         THEN KeepOthers(Tail(lines), fragmentname)
         ELSE <<Head(lines)>> \o KeepOthers(Tail(lines), fragmentname)

(* C2: after do_remove_fragment the file holds no line that is the require  *)
(* reference to the fragment, every other line is kept in order, and a file *)
(* without such a line is left unchanged, without an error.                 *)
C2_RemoveRemovesAll ==
    [][last'.op = "remove" =>
         /\ last'.err = NoError
         /\ \A i \in 1..Len(ReadLines(localconf')) :
                ~IsRequireLine(ReadLines(localconf')[i], last'.arg)
         /\ ReadLines(localconf') = KeepOthers(ReadLines(localconf), last'.arg)
         /\ ((\A i \in 1..Len(ReadLines(localconf)) :
                 ~IsRequireLine(ReadLines(localconf)[i], last'.arg))
             => localconf' = localconf)]_vars

(* C3: do_add_fragment with a name that discover_fragments does not return  *)
(* raises 'Fragment ... does not exist' without reading or writing          *)
(* conf/local.conf, whose content stays as it was; a name that discovery    *)
(* does return never raises that error.                                     *)
C3_AddUnknownFails ==
    /\ [](last.op = "add" =>
            LET d == discover_fragments(layers)
                unknown == d.err = NoError /\ last.arg \notin DiscoveredNames(d.val)
            IN  /\ unknown => (/\ last.err = NotExistError(last.arg)
                               /\ ~last.read /\ ~last.wrote)
                /\ last.err = NotExistError(last.arg) => unknown)
    /\ [][(last'.op = "add" /\ last'.err # NoError) => localconf' = localconf]_vars

\* an unknown name was refused although discovery returned other fragments and
\* conf/local.conf has content
C3_Witness ==
    /\ last.op = "add"
    /\ last.err = NotExistError(last.arg)
    /\ discover_fragments(layers).val # <<>>
    /\ localconf # <<>>

-----------------------------------------------------------------------------
(* Specification of fragment discovery over layer trees *)

\* get_fragment_info(fragmentpath) on the i-th file of the layer
CallGetFragmentInfo(i) ==
    /\ i \in 1..Len(layers[1].walk)
    /\ LET f == layers[1].walk[i]
           path == FragmentPath(layers[1].layerdir, f)
           info == get_fragment_info(path, f.lines)
       IN  last' = Call("info", path, info.err,
                        <<info.summary, info.description>>, TRUE, FALSE)
    /\ UNCHANGED <<layers, localconf, wicvars>>

CallDiscoverFragments ==
    /\ LET d == discover_fragments(layers)
       IN  last' = Call("discover", NoName, d.err, d.val, TRUE, FALSE)
    /\ UNCHANGED <<layers, localconf, wicvars>>

\* what do_list_fragments prints for one fragment
PrintFragment(f, verbose) ==
    IF ~verbose THEN <<f.name, "\t", f.summary>>
    ELSE <<"Name:", f.name, "Path:", f.path, "Summary:", f.summary,
           "Description:", Flatten(f.description)>>

\* do_list_fragments(args) with args.verbose = verbose
do_list_fragments(verbose) ==
    /\ LET d == discover_fragments(layers)
           out == Flatten([i \in 1..Len(d.val) |->
                      <<<<"Available fragments in", d.val[i].layername, d.val[i].layerdir>>>>
                      \o [j \in 1..Len(d.val[i].fragments) |->
                             PrintFragment(d.val[i].fragments[j], verbose)]
                      \o <<<<"">>>>])
       IN  last' = Call(IF verbose THEN "list-verbose" ELSE "list", NoName, d.err,
                        IF d.err = NoError THEN out ELSE <<>>, TRUE, FALSE)
    /\ UNCHANGED <<layers, localconf, wicvars>>

InitDisc ==
    /\ layers \in Collections(LayerTrees)
    /\ localconf = <<>>
    /\ last = NoCall
    /\ WicIdle

NextDisc ==
    \/ \E i \in 1..MaxFiles : CallGetFragmentInfo(i)
    \/ CallDiscoverFragments
    \/ \E verbose \in BOOLEAN : do_list_fragments(verbose)

SpecDisc == InitDisc /\ [][NextDisc]_vars

\* the leading '#'-comment block of a file
RECURSIVE CommentBlock(_)
CommentBlock(ls) ==
    IF ls = <<>> \/ ~StartsWithHash(Head(ls)) THEN <<>>
    ELSE <<Head(ls)>> \o CommentBlock(Tail(ls))

\* the block is a summary line (a comment with text) and at least one more line
WellFormed(block) == Len(block) >= 2 /\ Strip(Tail(block[1])) # <<>>

\* what the header rule asks of get_fragment_info for a file
ExpectedInfo(path, lines) ==
    LET block == CommentBlock(lines)
    IN  IF WellFormed(block)
        THEN [err |-> NoError,
              summary |-> Strip(Tail(block[1])),
              description |-> [i \in 1..(Len(block) - 1) |-> Strip(Tail(block[i + 1]))]]
        ELSE [err |-> HeaderError(path), summary |-> <<>>, description |-> <<>>]

(* C4: a file whose leading '#'-comment block is a summary line followed by *)
(* at least one description line yields its first comment line as summary   *)
(* and the following comment lines as description; any other file raises    *)
(* the error naming its path, and discovery of a layer holding such a file  *)
(* raises that error instead of returning a partial result.                 *)
C4_HeaderParsing ==
    /\ last.op = "info" =>
          \E i \in 1..Len(layers[1].walk) :
              LET f == layers[1].walk[i]
                  want == ExpectedInfo(FragmentPath(layers[1].layerdir, f), f.lines)
              IN  /\ last.arg = FragmentPath(layers[1].layerdir, f)
                  /\ last.err = want.err
                  /\ last.val = <<want.summary, want.description>>
    /\ last.op = "discover" =>
          LET bad == {i \in 1..Len(layers[1].walk) :
                         ~WellFormed(CommentBlock(layers[1].walk[i].lines))}
          IN  IF bad = {} THEN last.err = NoError
              ELSE /\ last.val = <<>>
                   /\ \E i \in bad :
                          last.err = HeaderError(FragmentPath(layers[1].layerdir,
                                                              layers[1].walk[i]))

\* path without its empty components, the leading one of an absolute path kept
RECURSIVE NormPath(_, _)
NormPath(p, first) ==
    IF p = <<>> THEN <<>>
    ELSE IF Head(p) = "" /\ ~first THEN NormPath(Tail(p), FALSE)
         ELSE <<Head(p)>> \o NormPath(Tail(p), FALSE)

\* the file 'conf/fragments/<name>.inc' names, taken relative to layerdir
RequiredFile(layerdir, name) ==
    LET full == NormPath(layerdir \o FragmentsRoot \o name, TRUE)
    IN  [dir |-> SubSeq(full, 1, Len(full) - 1), file |-> <<full[Len(full)], "inc">>]

(* C5: every file discover_fragments finds below a layer's conf/fragments,  *)
(* at any depth, gets as its name the directory path relative to            *)
(* conf/fragments joined with the file name's stem, so that                 *)
(* 'conf/fragments/<name>.inc' designates that file relative to the layer.  *)
(* Stated for the files named <stem>.inc.                                   *)
C5_FragmentNaming ==
    last.op = "discover" /\ last.err = NoError =>
        \A i \in 1..Len(last.val) : \A j \in 1..Len(last.val[i].fragments) :
            LET f == last.val[i].fragments[j]
            IN  (Len(f.path.file) = 2 /\ f.path.file[2] = "inc") =>
                    RequiredFile(last.val[i].layerdir, f.name) = f.path

-----------------------------------------------------------------------------
(* bootimg-pcbios: what the plugin is given *)

\* wic.misc.BOOTDD_EXTRA_SPACE, the least number of extra blocks
BOOTDD_EXTRA_SPACE == 16384

\* get_bitbake_var("KERNEL_IMAGETYPE"), get_bitbake_var("INITRAMFS_LINK_NAME")
KERNEL_IMAGETYPE == "bzImage"
INITRAMFS_LINK_NAME == "initramfs-link"

\* the bootimg_dir argument and get_bitbake_var("STAGING_DATADIR")
BootimgDir == <<"", "deploy">>
StagingDataDir == <<"", "work", "lib32-recipe-sysroot", "usr", "share">>

\* re.sub('/[^/]*recipe-sysroot', '/recipe-sysroot', staging_datadir)
NonArchDataDir(staging_datadir) ==
    [i \in 1..Len(staging_datadir) |->
        IF staging_datadir[i] = "lib32-recipe-sysroot" THEN "recipe-sysroot"
        ELSE staging_datadir[i]]

\* source_params['loader-pcbios']; Absent when the key is missing
Loaders == {"grub", "syslinux", "lilo", Absent}

\* title, label and initrd of source_params
ParamChoices ==
    {[title |-> Absent, label |-> Absent, initrd |-> <<>>],
     [title |-> "Title", label |-> "rootfs", initrd |-> <<"rd1", ";", "rd2">>]}

\* INITRAMFS_IMAGE_BUNDLE and INITRAMFS_IMAGE
BundleChoices == {[bundle |-> "0", image |-> ""],
                  [bundle |-> "1", image |-> ""],
                  [bundle |-> "1", image |-> "core-image-initramfs"]}

\* the directories that hold a 'syslinux' directory
SyslinuxDirChoices == SUBSET {BootimgDir, StagingDataDir, NonArchDataDir(StagingDataDir)}

Envs ==
    {[loader |-> l, title |-> p.title, label |-> p.label, initrd |-> p.initrd,
      bundle |-> b.bundle, image |-> b.image, syslinuxdirs |-> d] :
        l \in Loaders, p \in ParamChoices, b \in BundleChoices, d \in SyslinuxDirChoices}

\* creator.ks.bootloader and creator.rootdev
BootloaderTimeout == "5"
BootloaderAppend == "console=ttyS0"
RootDev == "/dev/sda2"

\* bootloader.configfile and what get_custom_config makes of it
ConfigFileChoices == {[configfile |-> Absent, custom |-> <<>>],
                      [configfile |-> "custom.cfg", custom |-> <<>>],
                      [configfile |-> "custom.cfg", custom |-> <<<<"custom configuration">>>>]}

PtableFormats == {"msdos", "gpt", "bsd"}
BlobChoices == SUBSET {"mbr.bin", "gptmbr.bin"}

\* what du reports for hdd/boot and what part.get_extra_block_count answers
BlockChoices == 1..MaxBlocks
ExtraChoices ==
    {0} \cup ((BOOTDD_EXTRA_SPACE - MaxExtraDelta)..(BOOTDD_EXTRA_SPACE + MaxExtraDelta))

-----------------------------------------------------------------------------
(* bootimg-pcbios: errors, commands and their execution *)

WicError(what) == [kind |-> "WicError", what |-> what]

NoLoaderError == WicError("bootimg-pcbios requires a loader, none specified")
UnrecognizedLoaderError == WicError("unrecognized bootimg-pcbios loader")
BootimgDirError == WicError("Couldn't find correct bootimg_dir, exiting")
UnsupportedPtableError == WicError("Unsupported partition table")
MbrMissingError ==
    WicError("Couldn't find mbrfile. If using the -e option, do you have the right MACHINE set")
ConfigFileError == WicError("configfile is specified but failed to get it")

\* exec_cmd / exec_native_cmd raise WicError when the command fails
ExecError(cmd) == [kind |-> "WicError: command failed", what |-> cmd]
\* shutil.copytree raises an OSError
OsError(cmd) == [kind |-> "OSError", what |-> cmd]

IsLoaderError(err) == err \in {NoLoaderError, UnrecognizedLoaderError}

\* one step of a handler: an external command (n is its numeric argument, fails
\* the exception its failure raises, writes the files it leaves), a file the
\* handler writes itself, or a raise
Cmd(name, n, writes) ==
    [cmd |-> <<name, n>>, raises |-> WicOK, fails |-> ExecError(name), writes |-> writes]
WriteFile(name, writes) ==
    [cmd |-> <<name, 0>>, raises |-> WicOK, fails |-> WicOK, writes |-> writes]
Raise(err) ==
    [cmd |-> <<"raise", 0>>, raises |-> err, fails |-> WicOK, writes |-> {}]

\* files with the written paths replaced
WriteAll(files, writes) ==
    {e \in files : \A w \in writes : w[1] # e[1]} \cup writes

\* the steps in order; step number failat fails (0: none does); an exception
\* ends the handler
RECURSIVE RunFrom(_, _, _, _, _)
RunFrom(plan, i, failat, log, files) ==
    IF i > Len(plan) THEN [err |-> WicOK, log |-> log, files |-> files]
    ELSE IF plan[i].raises # WicOK
    THEN [err |-> plan[i].raises, log |-> log, files |-> files]
    ELSE IF i = failat /\ plan[i].fails # WicOK
    THEN [err |-> plan[i].fails, log |-> Append(log, plan[i].cmd), files |-> files]
    ELSE RunFrom(plan, i + 1, failat, Append(log, plan[i].cmd),
                 WriteAll(files, plan[i].writes))

Run(plan, failat, files) == RunFrom(plan, 1, failat, <<>>, files)

\* the step numbers at which a run may fail
FailPoints(plan) == {0} \cup {i \in 1..Len(plan) : plan[i].fails # WicOK}

\* the commands a call ran, by name
Ran(log) == {log[i][1] : i \in 1..Len(log)}
Pos(log, name) == CHOOSE i \in 1..Len(log) : log[i][1] = name

-----------------------------------------------------------------------------
(* bootimg-pcbios: the handlers *)

\* paths below cr_workdir
HddDir == <<"hdd", "boot">>
GrubDir == HddDir \o <<"grub">>
GrubCfg == GrubDir \o <<"grub.cfg">>
SyslinuxCfg == HddDir \o <<"syslinux.cfg">>
GrubModDir == GrubDir \o <<"i386-pc">>
DeviceMap == <<"device.map">>
BootImg == <<"boot1.img">>
DiskImage == <<"disk.direct">>

\* _get_bootimg_dir(bootimg_dir, 'syslinux')
get_bootimg_dir(bootimg_dir, syslinuxdirs) ==
    IF bootimg_dir \in syslinuxdirs THEN [err |-> WicOK, dir |-> bootimg_dir]
    ELSE IF StagingDataDir \in syslinuxdirs THEN [err |-> WicOK, dir |-> StagingDataDir]
    ELSE IF NonArchDataDir(StagingDataDir) \in syslinuxdirs
    THEN [err |-> WicOK, dir |-> NonArchDataDir(StagingDataDir)]
    ELSE [err |-> BootimgDirError, dir |-> <<>>]

\* the kernel file name: KERNEL_IMAGETYPE, or the bundled initramfs kernel
KernelName(e) ==
    IF e.bundle = "1" /\ e.image # ""
    THEN <<KERNEL_IMAGETYPE, "-", INITRAMFS_LINK_NAME, ".bin">>
    ELSE <<KERNEL_IMAGETYPE>>

\* initrd.split(';')
RECURSIVE SplitFrom(_, _, _)
SplitFrom(s, sep, cur) ==
    IF s = <<>> THEN <<cur>>
    ELSE IF Head(s) = sep THEN <<cur>> \o SplitFrom(Tail(s), sep, <<>>)
         ELSE SplitFrom(Tail(s), sep, Append(cur, Head(s)))

Split(s, sep) == SplitFrom(s, sep, <<>>)

\* the grub.cfg do_configure_grub builds from the wks parameters, line by line
GrubConf(e) ==
    LET initrds == Split(e.initrd, ";")
    IN  << <<"serial --unit=0 --speed=115200 --word=8 --parity=no --stop=1">>,
           <<"default=boot">>,
           <<"timeout=", BootloaderTimeout>>,
           <<"menuentry '", IF e.title # Absent THEN e.title ELSE "boot", "'{">>,
           <<"linux /">> \o KernelName(e)
              \o <<" ", IF e.label # Absent THEN "LABEL=" ELSE "root=",
                   IF e.label # Absent THEN e.label ELSE RootDev,
                   " rootwait ", BootloaderAppend>> >>
        \o (IF e.initrd # <<>>
            THEN << <<"initrd">> \o Flatten([i \in 1..Len(initrds) |-> <<" /">> \o initrds[i]]) >>
            ELSE <<>>)
        \o << <<"}">> >>

\* the syslinux.cfg do_configure_syslinux builds, line by line
SyslinuxConf(e, splash) ==
    << <<"PROMPT 0">>, <<"TIMEOUT ", BootloaderTimeout>>, <<"">>,
       <<"ALLOWOPTIONS 1">>, <<"SERIAL 0 115200">>, <<"">> >>
    \o (IF splash THEN << <<"menu background splash.jpg">> >> ELSE <<>>)
    \o << <<"DEFAULT boot">>, <<"LABEL boot">>,
          <<"KERNEL ", "/", KERNEL_IMAGETYPE>>,
          <<"APPEND label=boot root=", RootDev, " ", BootloaderAppend>> >>

\* the configuration text: the custom one, an error when it is named but cannot
\* be read, the generated one otherwise
ConfigSteps(bl, path, generated) ==
    IF bl.configfile # Absent
    THEN IF bl.custom # <<>>
         THEN <<WriteFile("write config", {<<path, bl.custom>>})>>
         ELSE <<Raise(ConfigFileError)>>
    ELSE <<WriteFile("write config", {<<path, generated>>})>>

do_configure_grub(e, bl) ==
    <<Cmd("install -d grubdir", 0, {})>> \o ConfigSteps(bl, GrubCfg, GrubConf(e))

do_configure_syslinux(e, bl, splash) ==
    ConfigSteps(bl, SyslinuxCfg, SyslinuxConf(e, splash))

\* the try block of do_configure_partition; a missing key is the KeyError
ConfigureLoader(e, bl, splash) ==
    IF e.loader = Absent THEN <<Raise(NoLoaderError)>>
    ELSE IF e.loader = "grub" THEN do_configure_grub(e, bl)
    ELSE IF e.loader = "syslinux" THEN do_configure_syslinux(e, bl, splash)
    ELSE <<Raise(UnrecognizedLoaderError)>>

do_configure_partition(e, bl, splash) ==
    <<Cmd("install -d hdddir", 0, {})>> \o ConfigureLoader(e, bl, splash)

do_prepare_grub ==
    <<[Cmd("copytree grub modules", 0, {<<GrubModDir, <<<<"grub modules">>>>>>})
          EXCEPT !.fails = OsError("copytree grub modules")],
      Cmd("grub-mkimage", 0, {<<GrubModDir \o <<"core.img">>, <<<<"core image">>>>>>})>>

do_prepare_syslinux(bootimg_dir) ==
    [i \in 1..4 |->
        LET name == <<"ldlinux.sys", "vesamenu.c32", "libcom32.c32", "libutil.c32">>[i]
        IN  Cmd(<<"install ldlinux.sys", "install vesamenu.c32",
                  "install libcom32.c32", "install libutil.c32">>[i], 0,
                {<<HddDir \o <<name>>, <<bootimg_dir \o <<"syslinux", name>>>>>>})]

\* the try block with the final else branch lost: any other loader is prepared
\* like syslinux
PrepareLoader_noelse(e, bootimg_dir) ==
    IF e.loader = Absent THEN <<Raise(NoLoaderError)>>
    ELSE IF e.loader = "grub" THEN do_prepare_grub
    ELSE do_prepare_syslinux(bootimg_dir)

\* the try block of do_prepare_partition
PrepareLoader(e, bootimg_dir) ==
    IF e.loader = Absent THEN <<Raise(NoLoaderError)>>
    ELSE IF e.loader = "grub" THEN do_prepare_grub
    ELSE IF e.loader = "syslinux" THEN do_prepare_syslinux(bootimg_dir)
    ELSE <<Raise(UnrecognizedLoaderError)>>

\* the block count without the floor on extra_blocks
TotalBlocks_nofloor(blocks, extra_blocks) == blocks + extra_blocks

\* extra_blocks raised to BOOTDD_EXTRA_SPACE, added to blocks
TotalBlocks(blocks, extra_blocks) ==
    blocks + (IF extra_blocks < BOOTDD_EXTRA_SPACE THEN BOOTDD_EXTRA_SPACE
              ELSE extra_blocks)

\* the image steps with the copy issued before the image is formatted
ImageSteps_copyfirst(e, blocks, extra_blocks) ==
    <<Cmd("du", blocks, {}),
      Cmd("mcopy", 0, {<<BootImg, <<<<"FAT image of hdd/boot">>>>>>}),
      Cmd("mkdosfs", TotalBlocks(blocks, extra_blocks), {<<BootImg, <<<<"FAT image">>>>>>})>>
    \o (IF e.loader = "syslinux"
        THEN <<Cmd("syslinux", 0, {<<BootImg, <<<<"FAT image of hdd/boot, bootable">>>>>>})>>
        ELSE <<>>)
    \o <<Cmd("chmod", 0, {}), Cmd("du -L", TotalBlocks(blocks, extra_blocks), {})>>

\* do_prepare_partition from du on: size, format, copy, bootstrap, measure
ImageSteps(e, blocks, extra_blocks) ==
    <<Cmd("du", blocks, {}),
      Cmd("mkdosfs", TotalBlocks(blocks, extra_blocks), {<<BootImg, <<<<"FAT image">>>>>>}),
      Cmd("mcopy", 0, {<<BootImg, <<<<"FAT image of hdd/boot">>>>>>})>>
    \o (IF e.loader = "syslinux"
        THEN <<Cmd("syslinux", 0, {<<BootImg, <<<<"FAT image of hdd/boot, bootable">>>>>>})>>
        ELSE <<>>)
    \o <<Cmd("chmod", 0, {}), Cmd("du -L", TotalBlocks(blocks, extra_blocks), {})>>

do_prepare_partition(e, blocks, extra_blocks) ==
    LET found == get_bootimg_dir(BootimgDir, e.syslinuxdirs)
    IN  IF found.err # WicOK THEN <<Raise(found.err)>>
        ELSE <<Cmd("install kernel", 0,
                   {<<HddDir \o <<KERNEL_IMAGETYPE>>, <<KernelName(e)>>>>})>>
             \o PrepareLoader(e, found.dir)
             \o ImageSteps(e, blocks, extra_blocks)

\* source_params['loader-pcbios'] as do_install_disk sets it itself
InstallDiskLoader == "grub"

\* do_install_disk taking every format other than msdos for gpt
do_install_disk_nocheck(e, ptable_format, blobs) ==
    LET found == get_bootimg_dir(BootimgDir, e.syslinuxdirs)
        mbrfile == IF ptable_format = "msdos" THEN "mbr.bin" ELSE "gptmbr.bin"
    IN  IF found.err # WicOK THEN <<Raise(found.err)>>
        ELSE IF mbrfile \notin blobs THEN <<Raise(MbrMissingError)>>
        ELSE <<Cmd("dd", 0, {<<DiskImage, <<<<"boot code", mbrfile>>>>>>}),
               WriteFile("write device.map", {<<DeviceMap, <<<<"(hd0) ", "disk.direct">>>>>>}),
               Cmd("grub-bios-setup", 0, {})>>

do_install_disk(e, ptable_format, blobs) ==
    LET found == get_bootimg_dir(BootimgDir, e.syslinuxdirs)
        mbrfile == IF ptable_format = "msdos" THEN "mbr.bin" ELSE "gptmbr.bin"
    IN  IF found.err # WicOK THEN <<Raise(found.err)>>
        ELSE IF ptable_format \notin {"msdos", "gpt"} THEN <<Raise(UnsupportedPtableError)>>
        ELSE IF mbrfile \notin blobs THEN <<Raise(MbrMissingError)>>
        ELSE <<Cmd("dd", 0, {<<DiskImage, <<<<"boot code", mbrfile>>>>>>}),
               WriteFile("write device.map", {<<DeviceMap, <<<<"(hd0) ", "disk.direct">>>>>>})>>
             \o (IF InstallDiskLoader = "grub"
                 THEN <<Cmd("grub-bios-setup", 0, {})>>
                 ELSE <<>>)

-----------------------------------------------------------------------------
(* bootimg-pcbios: the calls of the disk builder *)

NoIn == [bl |-> [configfile |-> Absent, custom |-> <<>>], splash |-> FALSE,
         blocks |-> 0, extra_blocks |-> 0, ptable_format |-> "", blobs |-> {}]

FragIdle ==
    /\ layers = <<>>
    /\ localconf = <<>>
    /\ last = NoCall

\* a call of do_configure_partition; the builder goes on to okphase
ConfigureStep(okphase) ==
    \E bl \in ConfigFileChoices, splash \in BOOLEAN :
        LET plan == do_configure_partition(env, bl, splash)
        IN  \E failat \in FailPoints(plan) :
                LET r == Run(plan, failat, fs)
                IN  /\ fs' = r.files
                    /\ wcall' = [op |-> "configure", err |-> r.err, log |-> r.log,
                                 in |-> [NoIn EXCEPT !.bl = bl, !.splash = splash]]
                    /\ phase' = IF r.err = WicOK THEN okphase ELSE "aborted"
                    /\ UNCHANGED <<env, part, fragvars>>

\* a call of do_prepare_partition; part.size and part.source_file are its last
\* two statements
PrepareStep(okphase) ==
    \E blocks \in BlockChoices, extra_blocks \in ExtraChoices :
        LET plan == do_prepare_partition(env, blocks, extra_blocks)
        IN  \E failat \in FailPoints(plan) :
                LET r == Run(plan, failat, fs)
                IN  /\ fs' = r.files
                    /\ wcall' = [op |-> "prepare", err |-> r.err, log |-> r.log,
                                 in |-> [NoIn EXCEPT !.blocks = blocks,
                                                     !.extra_blocks = extra_blocks]]
                    /\ part' = IF r.err = WicOK
                               THEN [size |-> r.log[Pos(r.log, "du -L")][2],
                                     source_file |-> BootImg]
                               ELSE part
                    /\ phase' = IF r.err = WicOK THEN okphase ELSE "aborted"
                    /\ UNCHANGED <<env, fragvars>>

\* a call of do_install_disk
InstallDiskStep(okphase) ==
    \E ptable_format \in PtableFormats, blobs \in BlobChoices :
        LET plan == do_install_disk(env, ptable_format, blobs)
        IN  \E failat \in FailPoints(plan) :
                LET r == Run(plan, failat, fs)
                IN  /\ fs' = r.files
                    /\ wcall' = [op |-> "install_disk", err |-> r.err, log |-> r.log,
                                 in |-> [NoIn EXCEPT !.ptable_format = ptable_format,
                                                     !.blobs = blobs]]
                    /\ phase' = IF r.err = WicOK THEN okphase ELSE "aborted"
                    /\ UNCHANGED <<env, part, fragvars>>

\* the disk builder: CONFIGURE, PREPARE, INSTALL-DISK in this order, the build
\* aborted by the first exception
Configure == phase = "start" /\ ConfigureStep("configured")
Prepare == phase = "configured" /\ PrepareStep("prepared")
InstallDisk == phase = "prepared" /\ InstallDiskStep("installed")

InitWic ==
    /\ env \in Envs
    /\ phase = "start"
    /\ part = NewPart
    /\ fs = {}
    /\ wcall = NoWCall
    /\ FragIdle

NextWic == Configure \/ Prepare \/ InstallDisk

SpecWic == InitWic /\ [][NextWic]_vars

\* each handler called on its own, as the plugin interface allows
CallConfigure == phase = "start" /\ ConfigureStep("returned")
CallPrepare == phase = "start" /\ PrepareStep("returned")
CallInstallDisk == phase = "start" /\ InstallDiskStep("returned")

NextPlugin == CallConfigure \/ CallPrepare \/ CallInstallDisk

SpecPlugin == InitWic /\ [][NextPlugin]_vars

-----------------------------------------------------------------------------
(* Claims about bootimg-pcbios *)

GoodLoaders == {"grub", "syslinux"}

\* the loader error the loader value asks for
LoaderErrorFor(loader) ==
    IF loader = Absent THEN NoLoaderError ELSE UnrecognizedLoaderError

(* C6: with 'loader-pcbios' missing, do_configure_partition and             *)
(* do_prepare_partition each end by raising 'requires a loader, none        *)
(* specified', with any value other than grub and syslinux by raising       *)
(* 'unrecognized bootimg-pcbios loader', whatever the other inputs and the  *)
(* filesystem state; the loader error is raised for no other loader value.  *)
C6_BadLoaderAlwaysLoaderError ==
    wcall.op \in {"configure", "prepare"} =>
        /\ env.loader \notin GoodLoaders => wcall.err = LoaderErrorFor(env.loader)
        /\ IsLoaderError(wcall.err) => env.loader \notin GoodLoaders

\* the steps the handler takes before it looks at the loader all succeeded
ReachedLoaderCheck ==
    \/ /\ wcall.op = "configure"
       /\ wcall.err # ExecError("install -d hdddir")
    \/ /\ wcall.op = "prepare"
       /\ wcall.err # BootimgDirError
       /\ wcall.err # ExecError("install kernel")

(* C6 as amended: with 'loader-pcbios' missing or unrecognized both         *)
(* handlers end in an error, and it is the loader error whenever the steps  *)
(* before the loader check succeed (the install -d of the boot directory in *)
(* CONFIGURE; the bootimg_dir lookup and the kernel install in PREPARE);    *)
(* the loader error is raised for no other loader value.                    *)
C6_BadLoaderFails ==
    wcall.op \in {"configure", "prepare"} =>
        /\ env.loader \notin GoodLoaders =>
              /\ wcall.err # WicOK
              /\ ReachedLoaderCheck => wcall.err = LoaderErrorFor(env.loader)
              /\ ~ReachedLoaderCheck => Len(wcall.log) <= 1
        /\ IsLoaderError(wcall.err) => env.loader \notin GoodLoaders

\* PREPARE found the bootimg directory, installed the kernel and refused the
\* unrecognized loader
C6_Witness ==
    /\ wcall.op = "prepare"
    /\ env.loader = "lilo"
    /\ wcall.log = << <<"install kernel", 0>> >>
    /\ wcall.err = UnrecognizedLoaderError

Max(a, b) == IF a >= b THEN a ELSE b

(* C7: the block count do_prepare_partition passes to mkdosfs is            *)
(* blocks + max(extra_blocks, BOOTDD_EXTRA_SPACE) for the measured blocks   *)
(* and the extra_blocks part.get_extra_block_count returned, hence never    *)
(* below blocks + BOOTDD_EXTRA_SPACE.                                       *)
C7_BlockCount ==
    (wcall.op = "prepare" /\ "mkdosfs" \in Ran(wcall.log)) =>
        LET passed == wcall.log[Pos(wcall.log, "mkdosfs")][2]
        IN  /\ "du" \in Ran(wcall.log)
            /\ wcall.log[Pos(wcall.log, "du")][2] = wcall.in.blocks
            /\ passed = wcall.in.blocks + Max(wcall.in.extra_blocks, BOOTDD_EXTRA_SPACE)
            /\ passed >= wcall.in.blocks + BOOTDD_EXTRA_SPACE

\* mkdosfs was run for an allowance below the floor
C7_Witness ==
    /\ wcall.op = "prepare"
    /\ "mkdosfs" \in Ran(wcall.log)
    /\ wcall.in.extra_blocks > 0
    /\ wcall.in.extra_blocks < BOOTDD_EXTRA_SPACE

\* the boot code blob of a partition-table format
BlobOf(ptable_format) ==
    IF ptable_format = "msdos" THEN "mbr.bin"
    ELSE IF ptable_format = "gpt" THEN "gptmbr.bin" ELSE Absent

\* no dd was run, no device.map written, grub-bios-setup not run
NoDiskInstall(before, after, log) ==
    /\ Ran(log) \cap {"dd", "write device.map", "grub-bios-setup"} = {}
    /\ {e \in after : e[1] \in {DeviceMap, DiskImage}} = {e \in before : e[1] \in {DeviceMap, DiskImage}}

(* C8: in do_install_disk a partition-table format other than msdos and gpt *)
(* raises 'Unsupported partition table', a supported format whose boot-code *)
(* blob (mbr.bin, gptmbr.bin) does not exist raises 'Couldn't find ...'     *)
(* with the hint; in both cases no dd is run, no device.map is written and  *)
(* grub-bios-setup is not run.                                              *)
C8_InstallDiskErrors ==
    [][wcall'.op = "install_disk" =>
         LET fmt == wcall'.in.ptable_format
         IN  /\ fmt \notin {"msdos", "gpt"} => wcall'.err = UnsupportedPtableError
             /\ (fmt \in {"msdos", "gpt"} /\ BlobOf(fmt) \notin wcall'.in.blobs)
                   => wcall'.err = MbrMissingError
             /\ wcall'.err \in {UnsupportedPtableError, MbrMissingError}
                   => /\ NoDiskInstall(fs, fs', wcall'.log)
                      /\ \/ fmt \notin {"msdos", "gpt"}
                         \/ BlobOf(fmt) \notin wcall'.in.blobs]_vars

\* a gpt disk without gptmbr.bin was refused after the partition was prepared
C8_Witness ==
    /\ wcall.op = "install_disk"
    /\ wcall.in.ptable_format = "gpt"
    /\ wcall.in.blobs = {"mbr.bin"}
    /\ wcall.err = MbrMissingError
    /\ part.source_file = BootImg

(* C9: after CONFIGURE and PREPARE, INSTALL-DISK runs grub-bios-setup only  *)
(* on the GRUB path: with loader-pcbios = 'syslinux' it writes the MBR boot *)
(* code and never runs grub-bios-setup; with 'grub' it runs it after the    *)
(* MBR copy and after device.map is written.                                *)
C9_GrubSetupOnlyForGrub ==
    wcall.op = "install_disk" =>
        /\ env.loader = "syslinux" =>
              /\ "grub-bios-setup" \notin Ran(wcall.log)
              /\ wcall.err = WicOK => "dd" \in Ran(wcall.log)
        /\ (env.loader = "grub" /\ wcall.err = WicOK) =>
              /\ Ran(wcall.log) = {"dd", "write device.map", "grub-bios-setup"}
              /\ Pos(wcall.log, "dd") < Pos(wcall.log, "grub-bios-setup")
              /\ Pos(wcall.log, "write device.map") < Pos(wcall.log, "grub-bios-setup")

(* C10: in every run of do_prepare_partition mkdosfs comes before mcopy,    *)
(* the syslinux installer is run on the image after the copy exactly when   *)
(* loader-pcbios is 'syslinux', and part.size and part.source_file are      *)
(* assigned last, after all of these succeeded: a run that ends in an error *)
(* leaves both unchanged.                                                   *)
C10_PrepareOrder ==
    /\ [](wcall.op = "prepare" =>
            LET ran == Ran(wcall.log)
                copied == "mcopy" \in ran /\ wcall.err # ExecError("mcopy")
            IN  /\ "mcopy" \in ran =>
                      /\ "mkdosfs" \in ran
                      /\ Pos(wcall.log, "mkdosfs") < Pos(wcall.log, "mcopy")
                      /\ wcall.err # ExecError("mkdosfs")
                /\ "syslinux" \in ran =>
                      /\ env.loader = "syslinux"
                      /\ "mcopy" \in ran
                      /\ Pos(wcall.log, "mcopy") < Pos(wcall.log, "syslinux")
                /\ copied => ("syslinux" \in ran <=> env.loader = "syslinux")
                /\ wcall.err = WicOK =>
                      /\ copied
                      /\ part.size = wcall.log[Pos(wcall.log, "mkdosfs")][2]
                      /\ part.source_file = BootImg)
    /\ [][part' # part => (wcall'.op = "prepare" /\ wcall'.err = WicOK)]_vars
    /\ [][(wcall'.op = "prepare" /\ wcall'.err # WicOK) => part' = part]_vars

\* a syslinux partition was prepared to the end
C10_Witness ==
    /\ wcall.op = "prepare"
    /\ wcall.err = WicOK
    /\ "syslinux" \in Ran(wcall.log)
    /\ part.source_file = BootImg
    /\ part.size > BOOTDD_EXTRA_SPACE

\* the line of a loader configuration that names the kernel
IsGrubKernelLine(line) == line # <<>> /\ line[1] = "linux /"
IsSyslinuxKernelLine(line) == Len(line) >= 2 /\ line[1] = "KERNEL " /\ line[2] = "/"

\* the kernel name of such a line: the text between 'linux /' and the next
\* blank, the text after 'KERNEL /'
RECURSIVE UpToBlank(_)
UpToBlank(s) ==
    IF s = <<>> \/ Head(s) = " " THEN <<>> ELSE <<Head(s)>> \o UpToBlank(Tail(s))

ConfiguredKernels(cfg) ==
    {UpToBlank(Tail(cfg[i])) : i \in {j \in 1..Len(cfg) : IsGrubKernelLine(cfg[j])}}
    \cup {SubSeq(cfg[i], 3, Len(cfg[i])) :
            i \in {j \in 1..Len(cfg) : IsSyslinuxKernelLine(cfg[j])}}

\* the names of the files in hdd/boot
BootFileNames ==
    {<<f[1][Len(f[1])]>> : f \in {g \in fs : SubSeq(g[1], 1, Len(g[1]) - 1) = HddDir}}

(* C11: after CONFIGURE and PREPARE succeeded, every kernel path that the   *)
(* loader configuration in hdd/boot names (the 'linux /<kernel>' line of    *)
(* grub.cfg, the 'KERNEL /<kernel>' line of syslinux.cfg) is the name of a  *)
(* file that PREPARE installed into hdd/boot.                               *)
C11_KernelNameConsistent ==
    (wcall.op = "prepare" /\ wcall.err = WicOK) =>
        \A f \in fs :
            f[1] \in {GrubCfg, SyslinuxCfg} =>
                \A k \in ConfiguredKernels(f[2]) : k \in BootFileNames

====
